---- MODULE Spec2Model ----
(***************************************************************************)
(* Authentication and session core of the contacts REST backend:           *)
(* registration, email confirmation, login, refresh, session resolution,   *)
(* password reset and avatar update over a durable user table and a        *)
(* best-effort identity cache.                                              *)
(*                                                                         *)
(* Time is counted in whole seconds: python-jose writes the datetime       *)
(* claims exp and iat as integer seconds, so two tokens of the same kind   *)
(* made for the same subject within one second are the same string.        *)
(***************************************************************************)
EXTENDS Integers, Sequences, FiniteSets, TLC

----------------------------------------------------------------------------
(* Bounds of the model *)

\* number of clock advances in a behaviour
MaxTicks == 1

\* how many rows the contacts table is given
MaxContacts == 2

\* how many requests a worker handles step by step
MaxRequests == 2

----------------------------------------------------------------------------
(* Configuration and literals of the program *)

JWT_EXPIRATION_SECONDS == 3600
JWT_REFRESH_EXPIRATION_SECONDS == 604800
CACHE_TTL == 86400
\* create_email_token: timedelta(days=7)
EMAIL_TOKEN_DAYS == 7
\* create_password_reset_token: expires_seconds default
PWD_RESET_SECONDS == 3600

SecondsPerDay == 24 * 60 * 60

\* the amounts by which the clock advances between requests: to the last
\* second at which an access token made now is still accepted, and to the
\* first second at which a refresh token made now is expired
Jumps == {JWT_EXPIRATION_SECONDS, JWT_REFRESH_EXPIRATION_SECONDS + 1}

Usernames == {"alice", "bob"}
\* the addresses sent to /request_email and /request_password_reset:
\* alice's, and one that no registration uses
Emails == {"a@x", "zed@x"}
Passwords == {"pw1", "pw2"}
\* the request bodies of POST /register that the model sends (UserCreate)
RegisterInputs ==
    { [username |-> "alice", email |-> "a@x", password |-> "pw1", role |-> "admin"],
      [username |-> "bob",   email |-> "b@x", password |-> "pw1", role |-> "user"],
      [username |-> "bob",   email |-> "a@x", password |-> "pw2", role |-> "user"] }

\* the registrations sent while the cache store may fail
AliceOnly == {body \in RegisterInputs : body.username = "alice"}

\* the URL the upload service returns for a user's avatar
UploadedUrl(username) == IF username = "alice" THEN "cdn/alice" ELSE "cdn/bob"

\* Gravatar(email).get_image()
Gravatar(email) == IF email = "a@x" THEN "gravatar/a" ELSE "gravatar/b"

----------------------------------------------------------------------------
(* Tokens: the claim set of a signed JWT. Encoding is deterministic and    *)
(* injective on the claim set, so a token string is modelled by its claims *)
(* together with whether the signature verifies.                           *)

Absent == "absent"

Token(sub, iat, exp, token_type, purpose) ==
    [sub |-> sub, iat |-> iat, exp |-> exp, token_type |-> token_type,
     purpose |-> purpose, signed |-> TRUE]

\* the NULL of the refresh_token column, and of an empty response field
NoToken == [sub |-> "", iat |-> 0, exp |-> 0, token_type |-> "null",
            purpose |-> Absent, signed |-> FALSE]

\* a string that is no JWT signed with the server's secret
Garbage == [sub |-> "", iat |-> 0, exp |-> 0, token_type |-> "garbage",
            purpose |-> Absent, signed |-> FALSE]

create_token(sub, expires_delta, token_type, t) ==
    Token(sub, t, t + expires_delta, token_type, Absent)

create_access_token(sub, t) ==
    create_token(sub, JWT_EXPIRATION_SECONDS, "access", t)

create_refresh_token(sub, t) ==
    create_token(sub, JWT_REFRESH_EXPIRATION_SECONDS, "refresh", t)

create_email_token(sub, t) ==
    Token(sub, t, t + EMAIL_TOKEN_DAYS * SecondsPerDay, Absent, Absent)

create_password_reset_token(sub, t) ==
    Token(sub, t, t + PWD_RESET_SECONDS, Absent, "pwd_reset")

\* a decode that does not verify exp
jwt_decode_no_exp(tok, t) == tok.signed

\* jose.jwt.decode: JWTError on a bad signature or when exp < now (no leeway)
jwt_decode_ok(tok, t) == tok.signed /\ ~(tok.exp < t)

----------------------------------------------------------------------------
(* Password hashing *)

NoHash == [alg |-> "none", of |-> ""]
get_password_hash(password) == [alg |-> "bcrypt", of |-> password]
\* a verification that accepts every password for a bcrypt hash
verify_password_any(plain_password, hashed_password) ==
    hashed_password.alg = "bcrypt"

verify_password(plain_password, hashed_password) ==
    hashed_password.alg = "bcrypt" /\ hashed_password.of = plain_password

----------------------------------------------------------------------------
(* State *)

VARIABLES
    users,   \* the users table: username -> row (NoUser when there is no row)
    cache,   \* the identity cache: username -> entry (NoEntry when no key)
    now,     \* the clock, in seconds
    ticks,   \* how many times the clock advanced
    held,    \* the token a client kept from an earlier response or email,
             \* where it came from, and for a refresh token whether its
             \* subject has logged in again since it was received
             \* ("no", "same_second", "later_second")
    last,    \* the request just handled, the state of the cache store during
             \* it ("none": reachable, "read"/"write"/"both": those calls
             \* raise) and its response, until the response is delivered
    contacts, \* the contacts table: its rows and the next primary key
    reply,   \* the contacts request just handled and its response
    procs,   \* the requests that run as separate steps, one per worker
    current_password \* ghost: the password each username's owner set last,
             \* at registration or by a password reset ("" before that)

vars == <<users, cache, now, ticks, held, last, contacts, reply, procs,
          current_password>>

\* what the requests of the users router leave alone
aside == <<contacts, reply, procs>>

NoUser == [id |-> 0, username |-> "", email |-> "", hashed_password |-> NoHash,
           avatar |-> "", confirmed |-> FALSE, role |-> "user",
           refresh_token |-> NoToken]

\* a cached dict; refresh_token is NoToken when the dict has no such key
NoSnapshot == [id |-> 0, username |-> "", email |-> "", avatar |-> "",
               confirmed |-> FALSE, role |-> "user", refresh_token |-> NoToken]

NoEntry == [val |-> NoSnapshot, exp |-> 0]

\* schemas.User: what the resolver hands to the route
NoIdentity == [id |-> 0, username |-> "", email |-> "", avatar |-> "",
               confirmed |-> FALSE, role |-> "user"]

NoHeld == [tok |-> NoToken, src |-> "none", later |-> "no"]

Received(tok, src) == [tok |-> tok, src |-> src, later |-> "no"]

Response(status, detail) ==
    [status |-> status, detail |-> detail, access_token |-> NoToken,
     refresh_token |-> NoToken, identity |-> NoIdentity]

Last(op, tok, fault, resp) ==
    [op |-> op, tok |-> tok, fault |-> fault,
     status |-> resp.status, detail |-> resp.detail,
     access_token |-> resp.access_token, refresh_token |-> resp.refresh_token,
     identity |-> resp.identity]

NoLast == Last("none", NoToken, "none", Response(0, ""))

\* a date, and the absence of one (birth_date is nullable)
Date(y, m, d) == [y |-> y, m |-> m, d |-> d]
NoDate == Date(0, 0, 0)

NoContact == [id |-> 0, user_id |-> 0, name |-> "", email |-> "", phone |-> "",
              birth_date |-> NoDate]

NoReply == [op |-> "none", user_id |-> 0, contact_id |-> 0, status |-> 0,
            detail |-> "", items |-> {}, today |-> NoDate, days |-> 0]

NoBody == [username |-> "", email |-> "", password |-> "", role |-> "user"]

Procs == {1, 2}

\* a worker with no request
Idle(left) ==
    [pc |-> "idle", op |-> "none", body |-> NoBody, user |-> NoUser,
     access_token |-> NoToken, refresh_token |-> NoToken,
     resp |-> Response(0, ""), mail |-> NoToken, seq |-> 0, left |-> left]

Init ==
    /\ users = [n \in Usernames |-> NoUser]
    /\ cache = [n \in Usernames |-> NoEntry]
    /\ now = 0
    /\ ticks = 0
    /\ held = NoHeld
    /\ last = NoLast
    /\ contacts = [rows |-> {}, next_id |-> 1]
    /\ reply = NoReply
    /\ procs = [p \in Procs |-> Idle(MaxRequests)]
    /\ current_password = [n \in Usernames |-> ""]

----------------------------------------------------------------------------
(* The users repository *)

get_user_by_username(us, username) ==
    IF username \in Usernames THEN us[username] ELSE NoUser

get_user_by_email(us, email) ==
    IF \E n \in Usernames : us[n].id # 0 /\ us[n].email = email
    THEN us[CHOOSE n \in Usernames : us[n].id # 0 /\ us[n].email = email]
    ELSE NoUser

NextId(us) == Cardinality({n \in Usernames : us[n].id # 0}) + 1

create_user(us, body, hashed, avatar) ==
    [us EXCEPT ![body.username] =
        [id |-> NextId(us), username |-> body.username, email |-> body.email,
         hashed_password |-> hashed, avatar |-> avatar, confirmed |-> FALSE,
         role |-> body.role, refresh_token |-> NoToken]]

repo_confirmed_email(us, email) ==
    LET user == get_user_by_email(us, email) IN
    IF user.id # 0 THEN [us EXCEPT ![user.username].confirmed = TRUE] ELSE us

update_avatar_url(us, email, url) ==
    LET user == get_user_by_email(us, email) IN
    IF user.id # 0 THEN [us EXCEPT ![user.username].avatar = url] ELSE us

update_password(us, email, hashed) ==
    LET user == get_user_by_email(us, email) IN
    IF user.id # 0 THEN [us EXCEPT ![user.username].hashed_password = hashed] ELSE us

----------------------------------------------------------------------------
(* The identity cache *)

\* a cached dict that carries the whole row
Snapshot_with_hash(user, confirmed, refresh_token) ==
    [id |-> user.id, username |-> user.username, email |-> user.email,
     avatar |-> user.avatar, confirmed |-> confirmed, role |-> user.role,
     refresh_token |-> refresh_token, hashed_password |-> user.hashed_password]

Snapshot(user, confirmed, refresh_token) ==
    [id |-> user.id, username |-> user.username, email |-> user.email,
     avatar |-> user.avatar, confirmed |-> confirmed, role |-> user.role,
     refresh_token |-> refresh_token]

\* a write without ex=: the key stays for ten thousand times the TTL
set_user_cache_no_ttl(c, snapshot, t) ==
    [c EXCEPT ![snapshot.username] =
        [val |-> snapshot, exp |-> t + 10000 * CACHE_TTL]]

\* r.set(key, json.dumps(user), ex=config.CACHE_TTL)
set_user_cache(c, snapshot, t) ==
    [c EXCEPT ![snapshot.username] = [val |-> snapshot, exp |-> t + CACHE_TTL]]

\* r.get(key) and json.loads: NoSnapshot stands for None
get_user_cache(c, username, t) ==
    IF username \in Usernames /\ c[username].exp > t
    THEN c[username].val
    ELSE NoSnapshot

delete_user_cache(c, username) ==
    IF username \in Usernames THEN [c EXCEPT ![username] = NoEntry] ELSE c

\* the keys whose time to live has run out are gone
Expire(c, t) == [n \in Usernames |-> IF c[n].exp > t THEN c[n] ELSE NoEntry]

\* UserSchema.model_validate(cached)
model_validate(d) ==
    [id |-> d.id, username |-> d.username, email |-> d.email, avatar |-> d.avatar,
     confirmed |-> d.confirmed, role |-> d.role]

----------------------------------------------------------------------------
(* Request handlers. Each reads the state and yields the tables after the  *)
(* request, the response, and the token mailed by its background task.     *)
(* cacheUp says whether the cache store answers the calls of the request   *)
(* (FALSE: the redis call raises).                                         *)

Out(us, c, resp, mail) == [users |-> us, cache |-> c, resp |-> resp, mail |-> mail]

Identity(user) == model_validate(user)

\* a registration that checks the email only
register_user_email_only(body) ==
    IF get_user_by_email(users, body.email).id # 0
    THEN Out(users, cache,
             Response(409, "A user with this email already exists"), NoToken)
    ELSE LET hashed == get_password_hash(body.password)
             us2 == create_user(users, body, hashed, Gravatar(body.email))
             new_user == us2[body.username]
         IN Out(us2, cache,
                [Response(201, "") EXCEPT !.identity = Identity(new_user)],
                create_email_token(new_user.email, now))

register_user(body) ==
    IF get_user_by_email(users, body.email).id # 0
    THEN Out(users, cache,
             Response(409, "A user with this email already exists"), NoToken)
    ELSE IF get_user_by_username(users, body.username).id # 0
    THEN Out(users, cache,
             Response(409, "A user with this username already exists"), NoToken)
    ELSE LET hashed == get_password_hash(body.password)
             us2 == create_user(users, body, hashed, Gravatar(body.email))
             new_user == us2[body.username]
         IN Out(us2, cache,
                [Response(201, "") EXCEPT !.identity = Identity(new_user)],
                create_email_token(new_user.email, now))

\* a login that does not ask for a confirmed email
login_user_unconfirmed_ok(username, password, cacheUp) ==
    LET user == get_user_by_username(users, username) IN
    IF user.id = 0 \/ ~verify_password(password, user.hashed_password)
    THEN Out(users, cache, Response(401, "Invalid username or password"), NoToken)
    ELSE LET access_token == create_access_token(user.username, now)
             refresh_token == create_refresh_token(user.username, now)
             c2 == IF cacheUp
                   THEN set_user_cache(cache,
                            Snapshot(user, user.confirmed, refresh_token), now)
                   ELSE cache
             us2 == [users EXCEPT ![user.username].refresh_token = refresh_token]
         IN Out(us2, c2,
                [Response(200, "") EXCEPT !.access_token = access_token,
                                          !.refresh_token = refresh_token],
                NoToken)

\* a login that tells an unknown username from a wrong password
login_user_names_cause(username, password, cacheUp) ==
    LET user == get_user_by_username(users, username) IN
    IF user.id = 0
    THEN Out(users, cache, Response(401, "Unknown username"), NoToken)
    ELSE IF ~verify_password(password, user.hashed_password)
    THEN Out(users, cache, Response(401, "Invalid username or password"), NoToken)
    ELSE IF ~user.confirmed
    THEN Out(users, cache, Response(401, "Email address not verified"), NoToken)
    ELSE LET access_token == create_access_token(user.username, now)
             refresh_token == create_refresh_token(user.username, now)
             c2 == IF cacheUp
                   THEN set_user_cache(cache,
                            Snapshot(user, user.confirmed, refresh_token), now)
                   ELSE cache
             us2 == [users EXCEPT ![user.username].refresh_token = refresh_token]
         IN Out(us2, c2,
                [Response(200, "") EXCEPT !.access_token = access_token,
                                          !.refresh_token = refresh_token],
                NoToken)

\* a login whose cache write is not guarded: the failure aborts the request
login_user_cache_aborts(username, password, cacheUp) ==
    LET user == get_user_by_username(users, username) IN
    IF user.id = 0 \/ ~verify_password(password, user.hashed_password)
    THEN Out(users, cache, Response(401, "Invalid username or password"), NoToken)
    ELSE IF ~user.confirmed
    THEN Out(users, cache, Response(401, "Email address not verified"), NoToken)
    ELSE IF ~cacheUp
    THEN Out(users, cache, Response(500, "Internal Server Error"), NoToken)
    ELSE LET access_token == create_access_token(user.username, now)
             refresh_token == create_refresh_token(user.username, now)
         IN Out([users EXCEPT ![user.username].refresh_token = refresh_token],
                set_user_cache(cache,
                    Snapshot(user, user.confirmed, refresh_token), now),
                [Response(200, "") EXCEPT !.access_token = access_token,
                                          !.refresh_token = refresh_token],
                NoToken)

login_user(username, password, cacheUp) ==
    LET user == get_user_by_username(users, username) IN
    IF user.id = 0 \/ ~verify_password(password, user.hashed_password)
    THEN Out(users, cache, Response(401, "Invalid username or password"), NoToken)
    ELSE IF ~user.confirmed
    THEN Out(users, cache, Response(401, "Email address not verified"), NoToken)
    ELSE LET access_token == create_access_token(user.username, now)
             refresh_token == create_refresh_token(user.username, now)
             c2 == IF cacheUp
                   THEN set_user_cache(cache,
                            Snapshot(user, user.confirmed, refresh_token), now)
                   ELSE cache
             us2 == [users EXCEPT ![user.username].refresh_token = refresh_token]
         IN Out(us2, c2,
                [Response(200, "") EXCEPT !.access_token = access_token,
                                          !.refresh_token = refresh_token],
                NoToken)

\* a verification that looks the user up by username alone
verify_refresh_token_by_username(refresh_token) ==
    IF ~jwt_decode_ok(refresh_token, now) THEN NoUser
    ELSE IF refresh_token.sub = "" \/ refresh_token.token_type # "refresh"
    THEN NoUser
    ELSE get_user_by_username(users, refresh_token.sub)

\* a verification that decodes the token and looks the user up by its subject
verify_refresh_token_any_type(refresh_token) ==
    IF ~jwt_decode_ok(refresh_token, now) THEN NoUser
    ELSE get_user_by_username(users, refresh_token.sub)

verify_refresh_token(refresh_token) ==
    IF ~jwt_decode_ok(refresh_token, now) THEN NoUser
    ELSE IF refresh_token.sub = "" \/ refresh_token.token_type # "refresh"
    THEN NoUser
    ELSE LET rows == {n \in Usernames :
                        /\ users[n].id # 0
                        /\ users[n].username = refresh_token.sub
                        /\ users[n].refresh_token = refresh_token}
         IN IF rows = {} THEN NoUser ELSE users[CHOOSE n \in rows : TRUE]

\* a refresh that says when the token is expired or malformed
new_token_tells_expiry(refresh_token) ==
    LET user == verify_refresh_token(refresh_token) IN
    IF ~jwt_decode_ok(refresh_token, now)
    THEN Out(users, cache, Response(401, "Refresh token expired"), NoToken)
    ELSE IF user.id = 0
    THEN Out(users, cache, Response(401, "Invalid or expired refresh token"), NoToken)
    ELSE Out(users, cache,
             [Response(200, "") EXCEPT
                 !.access_token = create_access_token(user.username, now),
                 !.refresh_token = refresh_token],
             NoToken)

\* a refresh that rotates the refresh token
new_token_rotating(refresh_token) ==
    LET user == verify_refresh_token(refresh_token) IN
    IF user.id = 0
    THEN Out(users, cache, Response(401, "Invalid or expired refresh token"), NoToken)
    ELSE LET rotated == create_refresh_token(user.username, now) IN
         Out([users EXCEPT ![user.username].refresh_token = rotated], cache,
             [Response(200, "") EXCEPT
                 !.access_token = create_access_token(user.username, now),
                 !.refresh_token = rotated],
             NoToken)

\* a refresh that makes the access token for the user's email
new_token_for_email(refresh_token) ==
    LET user == verify_refresh_token(refresh_token) IN
    IF user.id = 0
    THEN Out(users, cache, Response(401, "Invalid or expired refresh token"), NoToken)
    ELSE Out(users, cache,
             [Response(200, "") EXCEPT
                 !.access_token = create_access_token(user.email, now),
                 !.refresh_token = refresh_token],
             NoToken)

\* a refresh that writes the user's snapshot back to the cache
new_token_caching(refresh_token) ==
    LET user == verify_refresh_token(refresh_token) IN
    IF user.id = 0
    THEN Out(users, cache, Response(401, "Invalid or expired refresh token"), NoToken)
    ELSE Out(users,
             set_user_cache(cache, Snapshot(user, user.confirmed, refresh_token), now),
             [Response(200, "") EXCEPT
                 !.access_token = create_access_token(user.username, now),
                 !.refresh_token = refresh_token],
             NoToken)

new_token(refresh_token) ==
    LET user == verify_refresh_token(refresh_token) IN
    IF user.id = 0
    THEN Out(users, cache, Response(401, "Invalid or expired refresh token"), NoToken)
    ELSE Out(users, cache,
             [Response(200, "") EXCEPT
                 !.access_token = create_access_token(user.username, now),
                 !.refresh_token = refresh_token],
             NoToken)

\* a resolver that never falls through to the users table
get_current_user_cache_only(token, cacheUp) ==
    IF ~jwt_decode_ok(token, now)
    THEN Response(401, "Could not validate credentials")
    ELSE IF ~cacheUp
    THEN Response(500, "Internal Server Error")
    ELSE LET cached == get_user_cache(cache, token.sub, now) IN
         IF cached # NoSnapshot
         THEN [Response(200, "") EXCEPT !.identity = model_validate(cached)]
         ELSE Response(401, "Could not validate credentials")

\* a resolver that reads the users table whenever the row exists
get_current_user_store_first(token, cacheUp) ==
    IF ~jwt_decode_ok(token, now)
    THEN Response(401, "Could not validate credentials")
    ELSE IF ~cacheUp
    THEN Response(500, "Internal Server Error")
    ELSE LET user == get_user_by_username(users, token.sub)
             cached == get_user_cache(cache, token.sub, now) IN
         IF user.id # 0
         THEN [Response(200, "") EXCEPT !.identity = Identity(user)]
         ELSE IF cached # NoSnapshot
         THEN [Response(200, "") EXCEPT !.identity = model_validate(cached)]
         ELSE Response(401, "Could not validate credentials")

get_current_user(token, cacheUp) ==
    IF ~jwt_decode_ok(token, now)
    THEN Response(401, "Could not validate credentials")
    ELSE IF ~cacheUp
    THEN Response(500, "Internal Server Error")
    ELSE LET cached == get_user_cache(cache, token.sub, now) IN
         IF cached # NoSnapshot
         THEN [Response(200, "") EXCEPT !.identity = model_validate(cached)]
         ELSE LET user == get_user_by_username(users, token.sub) IN
              IF user.id = 0
              THEN Response(401, "Could not validate credentials")
              ELSE [Response(200, "") EXCEPT !.identity = Identity(user)]

\* a gate that lets every resolved identity through
get_current_admin_user_any_role(token, cacheUp) == get_current_user(token, cacheUp)

get_current_admin_user(token, cacheUp) ==
    LET current == get_current_user(token, cacheUp) IN
    IF current.status # 200 THEN current
    ELSE IF current.identity.role # "admin"
    THEN Response(403, "Insufficient permissions")
    ELSE current

\* a confirmation that does not look at the confirmed flag first
confirmed_email_again(token, cacheUp) ==
    IF ~jwt_decode_ok(token, now)
    THEN Out(users, cache,
             Response(422, "Invalid token for email verification"), NoToken)
    ELSE LET user == get_user_by_email(users, token.sub) IN
         IF user.id = 0
         THEN Out(users, cache, Response(400, "Verification error"), NoToken)
         ELSE Out(repo_confirmed_email(users, token.sub),
                  IF cacheUp
                  THEN set_user_cache(cache, Snapshot(user, TRUE, NoToken), now)
                  ELSE cache,
                  Response(200, "Email has been verified"), NoToken)

\* a confirmation that does not check that the user exists
confirmed_email_unchecked(token, cacheUp) ==
    IF ~jwt_decode_ok(token, now)
    THEN Out(users, cache,
             Response(422, "Invalid token for email verification"), NoToken)
    ELSE LET user == get_user_by_email(users, token.sub) IN
         IF user.id # 0 /\ user.confirmed
         THEN Out(users, cache,
                  Response(200, "Your email is already verified"), NoToken)
         ELSE Out(repo_confirmed_email(users, token.sub),
                  IF cacheUp /\ user.id # 0
                  THEN set_user_cache(cache, Snapshot(user, TRUE, NoToken), now)
                  ELSE cache,
                  Response(200, "Email has been verified"), NoToken)

confirmed_email(token, cacheUp) ==
    IF ~jwt_decode_ok(token, now)
    THEN Out(users, cache,
             Response(422, "Invalid token for email verification"), NoToken)
    ELSE LET user == get_user_by_email(users, token.sub) IN
         IF user.id = 0
         THEN Out(users, cache, Response(400, "Verification error"), NoToken)
         ELSE IF user.confirmed
         THEN Out(users, cache,
                  Response(200, "Your email is already verified"), NoToken)
         ELSE Out(repo_confirmed_email(users, token.sub),
                  IF cacheUp
                  THEN set_user_cache(cache, Snapshot(user, TRUE, NoToken), now)
                  ELSE cache,
                  Response(200, "Email has been verified"), NoToken)

\* a request that mails every registered address, confirmed or not
request_email_always(email) ==
    LET user == get_user_by_email(users, email) IN
    Out(users, cache, Response(200, "Please check your email to confirm"),
        IF user.id # 0 THEN create_email_token(user.email, now) ELSE NoToken)

request_email(email) ==
    LET user == get_user_by_email(users, email) IN
    IF user.id # 0 /\ user.confirmed
    THEN Out(users, cache, Response(200, "Your email is already verified"), NoToken)
    ELSE Out(users, cache, Response(200, "Please check your email to confirm"),
             IF user.id # 0 THEN create_email_token(user.email, now) ELSE NoToken)

\* a request that tells whether the address is registered
request_password_reset_tells(email) ==
    LET user == get_user_by_email(users, email) IN
    IF user.id = 0
    THEN Out(users, cache, Response(404, "User not found"), NoToken)
    ELSE Out(users, cache,
             Response(200, "If an account with that email exists, check your inbox"),
             create_password_reset_token(user.email, now))

request_password_reset(email) ==
    LET user == get_user_by_email(users, email) IN
    Out(users, cache,
        Response(200, "If an account with that email exists, check your inbox"),
        IF user.id # 0 THEN create_password_reset_token(user.email, now)
        ELSE NoToken)

\* a redemption that does not look at the purpose marker
reset_password_any_purpose(token, new_password, cacheUp) ==
    IF ~jwt_decode_ok(token, now)
    THEN Out(users, cache,
             Response(422, "Invalid or expired password reset token"), NoToken)
    ELSE LET user == get_user_by_email(users, token.sub) IN
         IF user.id = 0
         THEN Out(users, cache, Response(400, "Invalid token or user"), NoToken)
         ELSE Out(update_password(users, token.sub, get_password_hash(new_password)),
                  IF cacheUp THEN delete_user_cache(cache, user.username) ELSE cache,
                  Response(200, "Password has been reset successfully"), NoToken)

\* a redemption that leaves the cache entry in place
reset_password_keeps_cache(token, new_password, cacheUp) ==
    IF ~jwt_decode_ok(token, now) \/ token.purpose # "pwd_reset"
    THEN Out(users, cache,
             Response(422, "Invalid or expired password reset token"), NoToken)
    ELSE LET user == get_user_by_email(users, token.sub) IN
         IF user.id = 0
         THEN Out(users, cache, Response(400, "Invalid token or user"), NoToken)
         ELSE Out(update_password(users, token.sub, get_password_hash(new_password)),
                  cache,
                  Response(200, "Password has been reset successfully"), NoToken)

reset_password(token, new_password, cacheUp) ==
    IF ~jwt_decode_ok(token, now) \/ token.purpose # "pwd_reset"
    THEN Out(users, cache,
             Response(422, "Invalid or expired password reset token"), NoToken)
    ELSE LET user == get_user_by_email(users, token.sub) IN
         IF user.id = 0
         THEN Out(users, cache, Response(400, "Invalid token or user"), NoToken)
         ELSE Out(update_password(users, token.sub, get_password_hash(new_password)),
                  IF cacheUp THEN delete_user_cache(cache, user.username) ELSE cache,
                  Response(200, "Password has been reset successfully"), NoToken)

update_avatar_user(token, readUp, writeUp) ==
    LET current == get_current_admin_user(token, readUp) IN
    IF current.status # 200 THEN Out(users, cache, current, NoToken)
    ELSE LET user == current.identity
             avatar_url == UploadedUrl(user.username)
             us2 == update_avatar_url(users, user.email, avatar_url)
             updated_user == get_user_by_email(us2, user.email)
         IN IF updated_user.id = 0
            THEN Out(users, cache, Response(404, "User not found"), NoToken)
            ELSE Out(us2,
                     IF writeUp
                     THEN set_user_cache(cache,
                              Snapshot(updated_user, updated_user.confirmed, NoToken),
                              now)
                     ELSE cache,
                     [Response(200, "") EXCEPT !.identity = Identity(updated_user)],
                     NoToken)

----------------------------------------------------------------------------
(* Contacts: src/repository/contacts.py behind src/services/contacts.py *)

\* datetime.date: the proleptic Gregorian calendar
IsLeap(y) == (y % 4 = 0 /\ y % 100 # 0) \/ y % 400 = 0

DaysInMonth(y, m) ==
    IF m = 2 THEN (IF IsLeap(y) THEN 29 ELSE 28)
    ELSE IF m \in {4, 6, 9, 11} THEN 30 ELSE 31

\* date(y, m, d) raises ValueError unless this holds
ValidDate(y, m, d) == m \in 1..12 /\ d \in 1..DaysInMonth(y, m)

RECURSIVE DaysBeforeMonth(_, _)
DaysBeforeMonth(y, m) ==
    IF m <= 1 THEN 0 ELSE DaysBeforeMonth(y, m - 1) + DaysInMonth(y, m - 1)

\* date.toordinal(): 1 for the first of January of year 1
toordinal(dt) ==
    LET py == dt.y - 1 IN
    365 * py + (py \div 4) - (py \div 100) + (py \div 400)
        + DaysBeforeMonth(dt.y, dt.m) + dt.d

\* the contacts the requests are made with: (email, phone) of the first and
\* the third are the same, the third has no birth date
ContactBodies ==
    { [name |-> "ann", email |-> "ann@y", phone |-> "1",
       birth_date |-> Date(1990, 1, 2)],
      [name |-> "bo", email |-> "bo@y", phone |-> "2",
       birth_date |-> Date(1992, 2, 29)],
      [name |-> "cy", email |-> "ann@y", phone |-> "1",
       birth_date |-> NoDate] }

\* date.today() at the time of a request: the end of a common year and the
\* end of February of a leap year
Todays == {Date(2023, 12, 30), Date(2024, 2, 27)}

\* the days parameter of /upcoming
DaysWindows == {1, 7}

\* the name filter of the list: "" stands for None; no name of the model is
\* part of another, so ilike('%name%') is a match of the whole name
NameFilters == {"", "ann"}

ContactIds == 1..MaxContacts

\* what a contacts operation leaves in the table and returns
ContactsOut(c, status, detail, items) ==
    [contacts |-> c, status |-> status, detail |-> detail, items |-> items]

\* select(Contact).filter_by(user_id=user.id) with the optional name filter
get_contacts(rows, user_id, name) ==
    {r \in rows : r.user_id = user_id /\ (name = "" \/ r.name = name)}

\* a lookup by primary key that forgets the owner
get_contact_by_id_unscoped(rows, contact_id, user_id) ==
    IF \E r \in rows : r.id = contact_id
    THEN CHOOSE r \in rows : r.id = contact_id
    ELSE NoContact

\* NoContact stands for None
get_contact_by_id(rows, contact_id, user_id) ==
    IF \E r \in rows : r.id = contact_id /\ r.user_id = user_id
    THEN CHOOSE r \in rows : r.id = contact_id /\ r.user_id = user_id
    ELSE NoContact

\* UniqueConstraint("email", "phone", "user_id")
uix_email_phone_userid(rows, row) ==
    \A r \in rows :
        r.id # row.id =>
            ~(r.email = row.email /\ r.phone = row.phone /\ r.user_id = row.user_id)

Conflict(c) ==
    ContactsOut(c, 409, "A contact with this email or phone already exists.", {})

\* ForeignKey("users.id") on contacts.user_id
contacts_user_id_fkey(user_id) == \E n \in Usernames : users[n].id = user_id

\* str(e.orig) of the IntegrityError of a commit, as the words of the
\* database's message: it names the constraint that was violated
UniqueViolation ==
    {"duplicate", "key", "value", "violates", "unique", "constraint",
     "uix_email_phone_userid"}
ForeignKeyViolation ==
    {"insert", "violates", "foreign", "key", "constraint",
     "contacts_user_id_fkey"}

\* a mapping that answers every integrity error alike
handle_integrity_error_alike(c, orig) ==
    ContactsOut(c, 400, "Data integrity error.", {})

\* rollback, then _handle_integrity_error: "uix_email_phone_userid" in str(e.orig)
handle_integrity_error(c, orig) ==
    IF "uix_email_phone_userid" \in orig THEN Conflict(c)
    ELSE ContactsOut(c, 400, "Data integrity error.", {})

create_contact(c, body, user_id) ==
    LET contact == [id |-> c.next_id, user_id |-> user_id, name |-> body.name,
                    email |-> body.email, phone |-> body.phone,
                    birth_date |-> body.birth_date] IN
    IF ~contacts_user_id_fkey(user_id)
    THEN handle_integrity_error(c, ForeignKeyViolation)
    ELSE IF ~uix_email_phone_userid(c.rows, contact)
    THEN handle_integrity_error(c, UniqueViolation)
    ELSE ContactsOut([rows |-> c.rows \cup {contact}, next_id |-> c.next_id + 1],
                     200, "", {contact})

update_contact(c, contact_id, body, user_id) ==
    LET contact == get_contact_by_id(c.rows, contact_id, user_id)
        changed == [contact EXCEPT !.name = body.name, !.email = body.email,
                                   !.phone = body.phone,
                                   !.birth_date = body.birth_date] IN
    IF contact = NoContact THEN ContactsOut(c, 200, "", {})
    ELSE IF ~uix_email_phone_userid(c.rows, changed)
    THEN handle_integrity_error(c, UniqueViolation)
    ELSE ContactsOut([c EXCEPT !.rows = (@ \ {contact}) \cup {changed}],
                     200, "", {changed})

remove_contact(c, contact_id, user_id) ==
    LET contact == get_contact_by_id(c.rows, contact_id, user_id) IN
    IF contact = NoContact THEN ContactsOut(c, 200, "", {})
    ELSE ContactsOut([c EXCEPT !.rows = @ \ {contact}], 200, "", {contact})

\* the inner function of get_upcoming_birthdays: year is advanced when the
\* candidate is before today, and the candidate made before that is returned
next_birthday(birth, today) ==
    LET year == today.y
        candidate == Date(year, birth.m, birth.d)
        year2 == IF toordinal(candidate) < toordinal(today) THEN year + 1 ELSE year
    IN candidate

\* date(year, birth.month, birth.day) raises ValueError for the 29th of
\* February in a common year; nothing catches it
get_upcoming_birthdays(c, user_id, days, today) ==
    LET mine == {r \in c.rows : r.user_id = user_id /\ r.birth_date # NoDate} IN
    IF \E r \in mine : ~ValidDate(today.y, r.birth_date.m, r.birth_date.d)
    THEN ContactsOut(c, 500, "Internal Server Error", {})
    ELSE ContactsOut(c, 200, "",
             {r \in mine :
                 LET delta == toordinal(next_birthday(r.birth_date, today))
                                  - toordinal(today) IN
                 0 <= delta /\ delta <= days})

----------------------------------------------------------------------------
(* Actions: one per request. Faults is the set of answers the cache store  *)
(* may give to the calls of a request: {TRUE} when it is reachable, BOOLEAN *)
(* when its calls may also raise. Bodies are the registrations sent.       *)

\* the tokens a client can send: the one it kept, or a string that is no JWT
Presentable == {held.tok, Garbage} \ {NoToken}

\* /request_password_reset is open to anyone and changes nothing: a reset
\* token made in the current second can be had for every registered address
FreshResetTokens == {request_password_reset(e).mail : e \in Emails} \ {NoToken}

\* a client keeps the token it holds or one it has just received
Keep(current, received) ==
    held' \in {current} \cup {h \in received : h.tok # NoToken}

Fault(up) == IF up THEN "none" ELSE "write"

\* requests are handled one at a time
Commit(op, tok, fault, out) ==
    /\ last = NoLast
    /\ reply = NoReply
    /\ users' = out.users
    /\ cache' = out.cache
    /\ last' = Last(op, tok, fault, out.resp)
    /\ UNCHANGED <<now, ticks>>
    /\ UNCHANGED aside
    /\ IF op \in {"register", "reset_password"} THEN TRUE
       ELSE UNCHANGED current_password

Register(Bodies) ==
    \E body \in Bodies :
        LET out == register_user(body) IN
        /\ Commit("register", NoToken, "none", out)
        /\ Keep(held, {Received(out.mail, "mail")})
        /\ current_password' =
              IF out.resp.status = 201
              THEN [current_password EXCEPT ![body.username] = body.password]
              ELSE current_password

ConfirmEmail(Faults) ==
    \E token \in Presentable, up \in Faults :
        /\ Commit("confirmed_email", token, Fault(up), confirmed_email(token, up))
        /\ UNCHANGED held

RequestEmail ==
    \E email \in Emails :
        LET out == request_email(email) IN
        /\ Commit("request_email", NoToken, "none", out)
        /\ Keep(held, {Received(out.mail, "mail")})

Login(Faults) ==
    \E username \in Usernames, password \in Passwords, up \in Faults :
        LET out == login_user(username, password, up)
            aged == IF /\ out.resp.status = 200
                       /\ held.tok.token_type = "refresh"
                       /\ held.tok.sub = username
                    THEN [held EXCEPT !.later =
                             IF now > held.tok.iat THEN "later_second"
                             ELSE IF @ = "no" THEN "same_second" ELSE @]
                    ELSE held
        IN
        /\ Commit("login", NoToken, Fault(up), out)
        /\ Keep(aged, {Received(out.resp.access_token, "login"),
                       Received(out.resp.refresh_token, "login")})

Refresh ==
    \E token \in Presentable :
        LET out == new_token(token) IN
        /\ Commit("refresh", token, "none", out)
        /\ Keep(held, {Received(out.resp.access_token, "refresh")})

\* a resolution that writes the row it has read from the users table to the cache
Resolve_repopulating(Faults) ==
    \E token \in Presentable, up \in Faults :
        LET resp == get_current_user(token, up)
            user == get_user_by_username(users, token.sub)
            missed == /\ resp.status = 200
                      /\ get_user_cache(cache, token.sub, now) = NoSnapshot
        IN
        /\ Commit("resolve", token, IF up THEN "none" ELSE "read",
                  Out(users,
                      IF missed
                      THEN set_user_cache(cache,
                               Snapshot(user, user.confirmed, NoToken), now)
                      ELSE cache,
                      resp, NoToken))
        /\ UNCHANGED held

Resolve(Faults) ==
    \E token \in Presentable, up \in Faults :
        /\ Commit("resolve", token, IF up THEN "none" ELSE "read",
                  Out(users, cache, get_current_user(token, up), NoToken))
        /\ UNCHANGED held

RequestPasswordReset ==
    \E email \in Emails :
        LET out == request_password_reset(email) IN
        /\ Commit("request_password_reset", NoToken, "none", out)
        /\ Keep(held, {Received(out.mail, "mail")})

ResetPassword(Faults) ==
    \E token \in Presentable \cup FreshResetTokens,
       new_password \in Passwords, up \in Faults :
        /\ Commit("reset_password", token, Fault(up),
                  reset_password(token, new_password, up))
        /\ UNCHANGED held
        /\ current_password' =
              IF reset_password(token, new_password, up).resp.status = 200
              THEN [current_password EXCEPT
                       ![get_user_by_email(users, token.sub).username] = new_password]
              ELSE current_password

UpdateAvatar(Faults) ==
    \E token \in Presentable, readUp \in Faults, writeUp \in Faults :
        /\ Commit("update_avatar", token,
                  IF readUp /\ writeUp THEN "none"
                  ELSE IF readUp THEN "write"
                  ELSE IF writeUp THEN "read" ELSE "both",
                  update_avatar_user(token, readUp, writeUp))
        /\ UNCHANGED held

\* the response of the request just handled reaches the client
Deliver ==
    /\ last # NoLast
    /\ last' = NoLast
    /\ UNCHANGED <<users, cache, now, ticks, held>>
    /\ UNCHANGED aside
    /\ UNCHANGED current_password

\* time passes between requests; expired cache keys disappear
Tick ==
    \E d \in Jumps :
        /\ last = NoLast
        /\ ticks < MaxTicks
        /\ now' = now + d
        /\ ticks' = ticks + 1
        /\ cache' = Expire(cache, now + d)
        /\ UNCHANGED <<users, held, last>>
        /\ UNCHANGED aside
        /\ UNCHANGED current_password

\* the requests of the contacts router: Depends(get_current_user) resolves
\* the token, and the handler runs with the resolved user's id
Reply(op, user_id, contact_id, today, days, out) ==
    [op |-> op, user_id |-> user_id, contact_id |-> contact_id,
     status |-> out.status, detail |-> out.detail, items |-> out.items,
     today |-> today, days |-> days]

\* Depends(get_current_user): the handler body runs for a resolved user,
\* otherwise the resolver's error is the response
Caller(token) == get_current_user(token, TRUE)

Handled(token, out) ==
    IF Caller(token).status = 200 THEN out
    ELSE ContactsOut(contacts, Caller(token).status, Caller(token).detail, {})

Answer(op, token, contact_id, today, days, out) ==
    /\ last = NoLast
    /\ reply = NoReply
    /\ contacts' = out.contacts
    /\ reply' = Reply(op, Caller(token).identity.id, contact_id, today, days, out)
    /\ UNCHANGED <<users, cache, now, ticks, held, last, procs>>
    /\ UNCHANGED current_password

GetContacts ==
    \E token \in Presentable, name \in NameFilters :
        LET user_id == Caller(token).identity.id IN
        Answer("get_contacts", token, 0, NoDate, 0,
               Handled(token,
                   ContactsOut(contacts, 200, "",
                               get_contacts(contacts.rows, user_id, name))))

GetContact ==
    \E token \in Presentable, contact_id \in ContactIds :
        LET user_id == Caller(token).identity.id IN
        Answer("get_contact", token, contact_id, NoDate, 0,
               Handled(token,
                   ContactsOut(contacts, 200, "",
                       {get_contact_by_id(contacts.rows, contact_id, user_id)}
                           \ {NoContact})))

CreateContact ==
    \E token \in Presentable, body \in ContactBodies :
        LET user_id == Caller(token).identity.id IN
        /\ contacts.next_id <= MaxContacts
        /\ Answer("create_contact", token, 0, NoDate, 0,
                  Handled(token, create_contact(contacts, body, user_id)))

UpdateContact ==
    \E token \in Presentable, contact_id \in ContactIds, body \in ContactBodies :
        LET user_id == Caller(token).identity.id IN
        Answer("update_contact", token, contact_id, NoDate, 0,
               Handled(token, update_contact(contacts, contact_id, body, user_id)))

DeleteContact ==
    \E token \in Presentable, contact_id \in ContactIds :
        LET user_id == Caller(token).identity.id IN
        Answer("delete_contact", token, contact_id, NoDate, 0,
               Handled(token, remove_contact(contacts, contact_id, user_id)))

GetUpcomingBirthdays ==
    \E token \in Presentable, days \in DaysWindows, today \in Todays :
        LET user_id == Caller(token).identity.id IN
        Answer("get_upcoming_birthdays", token, 0, today, days,
               Handled(token,
                   get_upcoming_birthdays(contacts, user_id, days, today)))

\* the response of the contacts request just handled reaches the client
ContactsReturn ==
    /\ reply # NoReply
    /\ reply' = NoReply
    /\ UNCHANGED <<users, cache, now, ticks, held, last, contacts, procs>>
    /\ UNCHANGED current_password

Requests(Faults, Bodies) ==
    \/ Register(Bodies)
    \/ ConfirmEmail(Faults)
    \/ RequestEmail
    \/ Login(Faults)
    \/ Refresh
    \/ Resolve(Faults)
    \/ RequestPasswordReset
    \/ ResetPassword(Faults)
    \/ UpdateAvatar(Faults)

\* the cache store is reachable
Next == Requests({TRUE}, RegisterInputs) \/ Deliver \/ Tick

Spec == Init /\ [][Next]_vars

\* two users and their contacts
TwoUsers == {b \in RegisterInputs : b.email # "a@x" \/ b.username = "alice"}

NextContacts ==
    \/ Register(TwoUsers)
    \/ ConfirmEmail({TRUE})
    \/ Login({TRUE})
    \/ Deliver
    \/ GetContacts
    \/ GetContact
    \/ CreateContact
    \/ UpdateContact
    \/ DeleteContact
    \/ GetUpcomingBirthdays
    \/ ContactsReturn

SpecContacts == Init /\ [][NextContacts]_vars

\* the calls to the cache store may raise
NextCacheFaults == Requests(BOOLEAN, AliceOnly) \/ Deliver \/ Tick

SpecCacheFaults == Init /\ [][NextCacheFaults]_vars

\* a verification token made for an address, registered or not, is redeemed
\* (create_email_token is all it takes to make one)
ConfirmEmailFor ==
    \E email \in Emails :
        LET token == create_email_token(email, now) IN
        /\ Commit("confirmed_email", token, "none", confirmed_email(token, TRUE))
        /\ UNCHANGED held

NextVerification ==
    \/ Requests({TRUE}, RegisterInputs)
    \/ ConfirmEmailFor
    \/ Deliver
    \/ Tick

SpecVerification == Init /\ [][NextVerification]_vars

----------------------------------------------------------------------------
(* Requests in flight: every await of register_user and login_user that
   reaches the database or the cache is a step of its own, and the steps of
   two workers interleave *)

\* unique=True on users.username and users.email: what the INSERT of
\* create_user is checked against at its commit
users_unique(us, body) ==
    /\ us[body.username].id = 0
    /\ \A n \in Usernames : us[n].id # 0 => us[n].email # body.email

\* a commit that writes only when nobody else has written since the row was read
commit_refresh_token_if_unchanged(us, user, refresh_token) ==
    IF us[user.username].refresh_token # user.refresh_token THEN us
    ELSE [us EXCEPT ![user.username].refresh_token = refresh_token]

\* user.refresh_token = refresh_token ... await db.commit(): the UPDATE
\* carries the attributes whose value differs from the one that was loaded
commit_refresh_token(us, user, refresh_token) ==
    IF refresh_token = user.refresh_token THEN us
    ELSE [us EXCEPT ![user.username].refresh_token = refresh_token]

\* the number of the next commit of a login
NextSeq ==
    LET taken == {procs[p].seq : p \in Procs} IN
    1 + CHOOSE s \in taken : \A t \in taken : t <= s

Step(p, to) ==
    /\ last = NoLast
    /\ procs' = [procs EXCEPT ![p] = to]
    /\ UNCHANGED <<now, ticks, last, contacts, reply>>

Done(w, resp) == [w EXCEPT !.pc = "done", !.resp = resp]

\* register_user up to the first await that finds no user with the email
RegisterCheckEmail(p) ==
    \E body \in RegisterInputs :
        LET w == [procs[p] EXCEPT !.op = "register", !.body = body] IN
        /\ procs[p].pc = "idle"
        /\ procs[p].left > 0
        /\ Step(p, IF get_user_by_email(users, body.email).id # 0
                   THEN Done(w, Response(409, "A user with this email already exists"))
                   ELSE [w EXCEPT !.pc = "check_username"])
        /\ UNCHANGED <<users, cache, held, current_password>>

RegisterCheckUsername(p) ==
    LET w == procs[p] IN
    /\ w.pc = "check_username"
    /\ Step(p, IF get_user_by_username(users, w.body.username).id # 0
               THEN Done(w, Response(409, "A user with this username already exists"))
               ELSE [w EXCEPT !.pc = "create"])
    /\ UNCHANGED <<users, cache, held, current_password>>

\* create_user: the commit raises IntegrityError when a unique constraint
\* is violated, and register_user has no handler for it
RegisterCreate(p) ==
    LET w == procs[p]
        us2 == create_user(users, w.body, get_password_hash(w.body.password),
                           Gravatar(w.body.email))
        new_user == us2[w.body.username]
    IN
    /\ w.pc = "create"
    /\ IF users_unique(users, w.body)
       THEN /\ users' = us2
            /\ current_password' =
                  [current_password EXCEPT ![w.body.username] = w.body.password]
            /\ Step(p, [Done(w, [Response(201, "") EXCEPT
                                    !.identity = Identity(new_user)])
                          EXCEPT !.mail = create_email_token(new_user.email, now)])
       ELSE /\ users' = users
            /\ UNCHANGED current_password
            /\ Step(p, Done(w, Response(500, "Internal Server Error")))
    /\ UNCHANGED <<cache, held>>

\* login_user up to the tokens and user.refresh_token = refresh_token
LoginVerify(p) ==
    \E username \in Usernames, password \in Passwords :
        LET user == get_user_by_username(users, username)
            w == [procs[p] EXCEPT !.op = "login", !.user = user] IN
        /\ procs[p].pc = "idle"
        /\ procs[p].left > 0
        /\ Step(p, IF user.id = 0 \/ ~verify_password(password, user.hashed_password)
                   THEN Done(w, Response(401, "Invalid username or password"))
                   ELSE IF ~user.confirmed
                   THEN Done(w, Response(401, "Email address not verified"))
                   ELSE [w EXCEPT
                            !.pc = "cache",
                            !.access_token = create_access_token(user.username, now),
                            !.refresh_token = create_refresh_token(user.username, now)])
        /\ UNCHANGED <<users, cache, held, current_password>>

\* await set_user_cache({... "refresh_token": user.refresh_token})
LoginCache(p) ==
    LET w == procs[p] IN
    /\ w.pc = "cache"
    /\ cache' = set_user_cache(cache,
                    Snapshot(w.user, w.user.confirmed, w.refresh_token), now)
    /\ Step(p, [w EXCEPT !.pc = "commit"])
    /\ UNCHANGED <<users, held, current_password>>

\* await db.commit(): it may raise, and then nothing is written
LoginCommit(p) ==
    \E ok \in BOOLEAN :
        LET w == procs[p] IN
        /\ w.pc = "commit"
        /\ IF ok
           THEN /\ users' = commit_refresh_token(users, w.user, w.refresh_token)
                /\ Step(p, [Done(w, [Response(200, "") EXCEPT
                                        !.access_token = w.access_token,
                                        !.refresh_token = w.refresh_token])
                              EXCEPT !.seq = NextSeq])
           ELSE /\ users' = users
                /\ Step(p, Done(w, Response(500, "Internal Server Error")))
        /\ UNCHANGED <<cache, held, current_password>>

\* the response is sent, and the mail of a registration with it; a request
\* that was refused before it wrote anything does not count
Return(p) ==
    LET w == procs[p] IN
    /\ w.pc = "done"
    /\ Step(p, Idle(IF w.resp.status \in {401, 409} THEN w.left ELSE w.left - 1))
    /\ held' = IF w.mail # NoToken THEN Received(w.mail, "mail") ELSE held
    /\ UNCHANGED <<users, cache, current_password>>

\* registrations of two workers, interleaved
NextRegistrations ==
    \/ \E p \in Procs : RegisterCheckEmail(p)
    \/ \E p \in Procs : RegisterCheckUsername(p)
    \/ \E p \in Procs : RegisterCreate(p)
    \/ \E p \in Procs : Return(p)

SpecRegistrations == Init /\ [][NextRegistrations]_vars

\* logins of two workers, interleaved, for a user who has registered and
\* confirmed the email
NextLogins ==
    \/ Register(AliceOnly)
    \/ ConfirmEmail({TRUE})
    \/ Deliver
    \/ Tick
    \/ \E p \in Procs : LoginVerify(p)
    \/ \E p \in Procs : LoginCache(p)
    \/ \E p \in Procs : LoginCommit(p)
    \/ \E p \in Procs : Return(p)

SpecLogins == Init /\ [][NextLogins]_vars

\* update_avatar_user up to the identity that get_current_admin_user yields
AvatarResolve(p) ==
    \E token \in Presentable :
        LET current == get_current_admin_user(token, TRUE)
            w == [procs[p] EXCEPT !.op = "update_avatar"] IN
        /\ procs[p].pc = "idle"
        /\ procs[p].left > 0
        /\ Step(p, IF current.status # 200 THEN Done(w, current)
                   ELSE [w EXCEPT !.pc = "update",
                                  !.body = [NoBody EXCEPT
                                      !.username = current.identity.username,
                                      !.email = current.identity.email]])
        /\ UNCHANGED <<users, cache, held, current_password>>

\* the upload, then await user_service.update_avatar_url(user.email, avatar_url):
\* the row is read, changed, committed and refreshed
AvatarUpdate(p) ==
    LET w == procs[p]
        us2 == update_avatar_url(users, w.body.email, UploadedUrl(w.body.username))
        updated_user == get_user_by_email(us2, w.body.email)
    IN
    /\ w.pc = "update"
    /\ users' = us2
    /\ Step(p, IF updated_user.id = 0
               THEN Done(w, Response(404, "User not found"))
               ELSE [w EXCEPT !.pc = "avatar_cache", !.user = updated_user])
    /\ UNCHANGED <<cache, held, current_password>>

\* await set_user_cache({...}) with the row as update_avatar_url returned it
AvatarCache(p) ==
    LET w == procs[p] IN
    /\ w.pc = "avatar_cache"
    /\ cache' = set_user_cache(cache,
                    Snapshot(w.user, w.user.confirmed, NoToken), now)
    /\ Step(p, Done(w, [Response(200, "") EXCEPT !.identity = Identity(w.user)]))
    /\ UNCHANGED <<users, held, current_password>>

\* logins and avatar updates of two workers, interleaved, for an
\* administrator who has an access token; the cache store is reachable
NextAvatars ==
    \/ Register(AliceOnly)
    \/ ConfirmEmail({TRUE})
    \/ Login({TRUE})
    \/ Deliver
    \/ \E p \in Procs : LoginVerify(p)
    \/ \E p \in Procs : LoginCache(p)
    \/ \E p \in Procs : LoginCommit(p)
    \/ \E p \in Procs : AvatarResolve(p)
    \/ \E p \in Procs : AvatarUpdate(p)
    \/ \E p \in Procs : AvatarCache(p)
    \/ \E p \in Procs : Return(p)

SpecAvatars == Init /\ [][NextAvatars]_vars

----------------------------------------------------------------------------
(* The tokens there are: every token the server can have made at a clock   *)
(* value of the model, and a string that is no token.                      *)

RECURSIVE ClockAfter(_)
ClockAfter(k) ==
    IF k = 0 THEN {0}
    ELSE LET r == ClockAfter(k - 1) IN r \cup {t + d : t \in r, d \in Jumps}

ClockValues == ClockAfter(MaxTicks)

Subjects == Usernames \cup {body.email : body \in RegisterInputs}

TokenUniverse ==
    UNION { {create_access_token(sub, t), create_refresh_token(sub, t),
             create_email_token(sub, t), create_password_reset_token(sub, t)} :
            sub \in Subjects, t \in ClockValues } \cup {Garbage}

\* the tokens that can exist: none is made at a time still to come
TokensSoFar == {tok \in TokenUniverse : tok.iat <= now}

\* the refresh operation accepts the token
RefreshAccepts(tok) == new_token(tok).resp.status = 200

\* the token strings for which verify_refresh_token returns the user
AcceptedFor(username) ==
    {tok \in TokensSoFar : verify_refresh_token(tok).username = username}

\* the session resolver, with the cache store reachable, yields the token's subject
Resolves(tok) ==
    LET r == get_current_user(tok, TRUE) IN
    r.status = 200 /\ r.identity.username = tok.sub

\* the client holds a refresh token that a login returned
HoldsLoginRefreshToken ==
    held.src = "login" /\ held.tok.token_type = "refresh"

----------------------------------------------------------------------------
(* Claims *)

\* C1, as stated: once the identity has logged in again, the refresh token
\* that an earlier login returned is rejected by refresh with 401.
C1_AsStated ==
    (/\ last.op = "refresh"
     /\ last.tok = held.tok
     /\ HoldsLoginRefreshToken
     /\ held.later # "no")
    => last.status = 401

\* C1, amended: once the identity has logged in again in a later clock
\* second than the one in which the token was made, the refresh token that
\* the earlier login returned is rejected by refresh with 401.
C1_EarlierTokenRejected ==
    (HoldsLoginRefreshToken /\ held.later = "later_second")
    => /\ ~RefreshAccepts(held.tok)
       /\ (last.op = "refresh" /\ last.tok = held.tok) => last.status = 401

\* an unexpired refresh token of an earlier login is refused after a later login
C1_Witness ==
    /\ last.op = "refresh"
    /\ last.tok = held.tok
    /\ HoldsLoginRefreshToken
    /\ held.later = "later_second"
    /\ jwt_decode_ok(held.tok, now)
    /\ last.status = 401

\* C2: for every identity, the token strings that verify_refresh_token
\* accepts for it are none or one: the stored refresh_token of the identity.
C2_SingleRefreshToken ==
    \A n \in Usernames : AcceptedFor(n) \subseteq {users[n].refresh_token}

\* a refresh has succeeded and its token is the one accepted for the identity
C2_Witness ==
    /\ last.op = "refresh"
    /\ last.status = 200
    /\ AcceptedFor(last.tok.sub) = {last.tok}
    /\ \E n \in Usernames : n # last.tok.sub /\ users[n].refresh_token # NoToken

\* C3: the session resolver accepts access tokens only: a bearer token that
\* is no access token gets 401 and yields no identity.
C3_ResolverAccessOnly ==
    (last.op = "resolve" /\ last.tok.token_type # "access")
    => (last.status = 401 /\ last.identity = NoIdentity)

\* C4: refresh rejects every token whose token_type is not refresh: it
\* answers 401 and issues no access token.
C4_RefreshRejectsOtherTypes ==
    /\ \A tok \in TokensSoFar :
          tok.token_type # "refresh"
          => LET out == new_token(tok) IN
             out.resp.status = 401 /\ out.resp.access_token = NoToken
    /\ (last.op = "refresh" /\ last.tok.token_type # "refresh")
       => (last.status = 401 /\ last.access_token = NoToken)

\* an unexpired access token of an existing identity was sent to refresh
C4_Witness ==
    /\ last.op = "refresh"
    /\ last.tok.token_type = "access"
    /\ jwt_decode_ok(last.tok, now)
    /\ get_user_by_username(users, last.tok.sub).id # 0
    /\ last.status = 401

\* C5: when the cache store raises on the resolver's read, the resolver
\* behaves as on a miss: it returns the identity found in the users table.
C5_CacheReadFailureIsMiss ==
    (/\ last.op = "resolve"
     /\ last.fault = "read"
     /\ jwt_decode_ok(last.tok, now)
     /\ get_user_by_username(users, last.tok.sub).id # 0)
    => (last.status = 200 /\ last.identity.username = last.tok.sub)

SameOutcome(a, b) == a.resp = b.resp /\ a.users = b.users

\* C6: a failing cache write or delete changes neither the response nor
\* the stored users of login, email confirmation, avatar update and
\* password reset: login still stores the refresh token and returns the
\* tokens, confirmation still confirms, and so on.
C6_CacheWriteFailureHarmless ==
    /\ \A n \in Usernames, pw \in Passwords :
          SameOutcome(login_user(n, pw, FALSE), login_user(n, pw, TRUE))
    /\ \A tok \in Presentable \cup FreshResetTokens :
          /\ SameOutcome(confirmed_email(tok, FALSE), confirmed_email(tok, TRUE))
          /\ SameOutcome(update_avatar_user(tok, TRUE, FALSE),
                         update_avatar_user(tok, TRUE, TRUE))
          /\ \A pw \in Passwords :
                SameOutcome(reset_password(tok, pw, FALSE),
                            reset_password(tok, pw, TRUE))
    /\ (last.fault = "write" /\ last.op = "login" /\ last.status = 200)
       => /\ last.access_token # NoToken
          /\ users[last.refresh_token.sub].refresh_token = last.refresh_token
    /\ (last.fault = "write" /\ last.op = "confirmed_email"
            /\ last.status = 200)
       => get_user_by_email(users, last.tok.sub).confirmed
    /\ (last.fault = "write" /\ last.op \in {"login", "confirmed_email",
                                             "reset_password", "update_avatar"})
       => last.status # 500

\* a login went through while the cache write raised
C6_Witness ==
    /\ last.op = "login"
    /\ last.fault = "write"
    /\ last.status = 200
    /\ users[last.refresh_token.sub].refresh_token = last.refresh_token
    /\ cache[last.refresh_token.sub] = NoEntry

\* C7: a successful refresh returns the refresh token it was given, and the
\* same token is accepted again, and returned again, for as long as it is
\* not expired and no other request has been handled.
C7_RefreshDoesNotRotate ==
    (last.op = "refresh" /\ last.status = 200)
    => /\ last.refresh_token = last.tok
       /\ jwt_decode_ok(last.tok, now)
          => LET again == new_token(last.tok) IN
             /\ again.resp.status = 200
             /\ again.resp.refresh_token = last.tok
             /\ again.users = users

\* a refresh has succeeded in a later second than the login that made the token
C7_Witness ==
    /\ last.op = "refresh"
    /\ last.status = 200
    /\ last.refresh_token = last.tok
    /\ now > last.tok.iat

\* C8: the access token that a successful refresh returns resolves to the
\* identity whose login made the refresh token.
C8_RefreshedTokenResolves ==
    /\ (last.op = "refresh" /\ last.status = 200)
       => /\ Resolves(last.access_token)
          /\ last.access_token.sub = last.tok.sub
          /\ users[last.tok.sub].refresh_token = last.tok
    /\ (last.op = "resolve" /\ last.tok = held.tok /\ held.src = "refresh")
       => (last.status = 200 /\ last.identity.username = last.tok.sub)
           \/ ~jwt_decode_ok(last.tok, now)

\* the access token of a refresh was resolved
C8_Witness ==
    /\ last.op = "resolve"
    /\ last.tok = held.tok
    /\ held.src = "refresh"
    /\ last.status = 200
    /\ last.identity.username = last.tok.sub
    /\ now > users[last.tok.sub].refresh_token.iat

\* C9: an access token is accepted by the resolver and yields its subject
\* at every time before its exp, and gets 401 at every time after it.
C9_AccessTokenRoundTrip ==
    /\ held.tok.token_type = "access"
       => /\ now < held.tok.exp => Resolves(held.tok)
          /\ now > held.tok.exp => get_current_user(held.tok, TRUE).status = 401
    /\ (last.op = "resolve" /\ last.tok.token_type = "access")
       => /\ now < last.tok.exp
             => (last.status = 200 /\ last.identity.username = last.tok.sub)
          /\ now > last.tok.exp => last.status = 401

\* an expired access token was refused
C9_Witness ==
    /\ last.op = "resolve"
    /\ last.tok.token_type = "access"
    /\ now > last.tok.exp
    /\ last.status = 401

\* C10: no request makes the resolver stop accepting an access token: a
\* token that resolves keeps resolving to its subject after every step that
\* leaves the clock at or before its exp.
C10_AccessTokenNotRevocable ==
    [][ (/\ held.tok.token_type = "access"
         /\ held' = held
         /\ Resolves(held.tok)
         /\ ~(held.tok.exp < now'))
        => Resolves(held.tok)' ]_vars

\* an access token resolved after a later login and a password reset that
\* removed the cache entry
C10_Witness ==
    /\ last.op = "resolve"
    /\ last.tok.token_type = "access"
    /\ last.status = 200
    /\ last.identity.username = last.tok.sub
    /\ users[last.tok.sub].refresh_token.iat > last.tok.iat
    /\ users[last.tok.sub].hashed_password = get_password_hash("pw2")
    /\ cache[last.tok.sub] = NoEntry

\* C11: after a successful password reset for an identity, the refresh
\* token that a login returned to that identity before the reset is refused
\* by refresh.
C11_ResetRevokesRefreshToken ==
    (/\ last.op = "reset_password"
     /\ last.status = 200
     /\ HoldsLoginRefreshToken
     /\ get_user_by_email(users, last.tok.sub).username = held.tok.sub)
    => ~RefreshAccepts(held.tok)

\* C12: a login with the right password for a user whose email is not
\* confirmed answers 401 "Email address not verified" with no tokens, and
\* leaves the users table and the cache as they were.
C12_UnconfirmedLoginRefused ==
    /\ \A n \in Usernames, pw \in Passwords, up \in BOOLEAN :
          LET user == get_user_by_username(users, n) IN
          (/\ user.id # 0
           /\ verify_password(pw, user.hashed_password)
           /\ ~user.confirmed)
          => login_user(n, pw, up) =
                Out(users, cache,
                    Response(401, "Email address not verified"), NoToken)
    /\ (last.op = "login" /\ last.detail = "Email address not verified")
       => /\ last.status = 401
          /\ last.access_token = NoToken
          /\ last.refresh_token = NoToken

\* a login of a registered, unconfirmed user was refused
C12_Witness ==
    /\ last.op = "login"
    /\ last.status = 401
    /\ last.detail = "Email address not verified"
    /\ \E n \in Usernames :
          /\ users[n].id # 0
          /\ ~users[n].confirmed
          /\ users[n].refresh_token = NoToken
          /\ cache[n] = NoEntry

\* the username has no row
UnknownUsername(n) == get_user_by_username(users, n).id = 0

\* the username has a row and the password is not the one of the row
WrongPassword(n, pw) ==
    LET user == get_user_by_username(users, n) IN
    user.id # 0 /\ ~verify_password(pw, user.hashed_password)

\* C13: a login with an unknown username and a login with a known username
\* and a wrong password get the same response, 401 "Invalid username or
\* password", and neither changes the users table or the cache.
C13_LoginFailuresAlike ==
    \A n1 \in Usernames, n2 \in Usernames, pw1 \in Passwords, pw2 \in Passwords,
       up \in BOOLEAN :
        (UnknownUsername(n1) /\ WrongPassword(n2, pw2))
        => LET unknown == login_user(n1, pw1, up)
               wrong == login_user(n2, pw2, up)
           IN /\ unknown.resp = wrong.resp
              /\ unknown = Out(users, cache,
                               Response(401, "Invalid username or password"),
                               NoToken)
              /\ wrong = Out(users, cache,
                             Response(401, "Invalid username or password"),
                             NoToken)

\* a login failed while one username is unknown and another, confirmed one
\* can be tried with a wrong password
C13_Witness ==
    /\ last.op = "login"
    /\ last.status = 401
    /\ last.detail = "Invalid username or password"
    /\ \E n1 \in Usernames, n2 \in Usernames, pw \in Passwords :
          /\ UnknownUsername(n1)
          /\ WrongPassword(n2, pw)
          /\ users[n2].confirmed

\* the registration names an email or a username that a row already has
Taken(body) ==
    \/ get_user_by_email(users, body.email).id # 0
    \/ get_user_by_username(users, body.username).id # 0

\* C14: a registration with an email or a username that a user already has
\* answers 409, makes no user, sends no verification email and leaves the
\* users table as it was.
C14_DuplicateRegistrationRefused ==
    /\ \A body \in RegisterInputs :
          Taken(body)
          => LET out == register_user(body) IN
             /\ out.resp.status = 409
             /\ out.resp.identity = NoIdentity
             /\ out.users = users
             /\ out.cache = cache
             /\ out.mail = NoToken
    /\ (last.op = "register" /\ last.status # 201)
       => (last.status = 409 /\ last.identity = NoIdentity)

\* a registration was refused for its username alone
C14_Witness ==
    /\ last.op = "register"
    /\ last.status = 409
    /\ last.detail = "A user with this username already exists"
    /\ Cardinality({n \in Usernames : users[n].id # 0}) = 1

\* C15: when the identity the bearer token resolves to is no admin, the
\* avatar update answers 403 and changes neither the users table nor the
\* cache; the avatar of a user who is no admin is always the one of its
\* registration, in the table and in the cache.
C15_AdminGateOnAvatar ==
    /\ \A tok \in Presentable, writeUp \in BOOLEAN :
          LET current == get_current_user(tok, TRUE) IN
          (current.status = 200 /\ current.identity.role # "admin")
          => update_avatar_user(tok, TRUE, writeUp) =
                Out(users, cache, Response(403, "Insufficient permissions"),
                    NoToken)
    /\ \A n \in Usernames :
          (users[n].id # 0 /\ users[n].role # "admin")
          => /\ users[n].avatar = Gravatar(users[n].email)
             /\ cache[n] # NoEntry
                => cache[n].val.avatar = Gravatar(users[n].email)
    /\ (last.op = "update_avatar" /\ last.status = 200)
       => last.identity.role = "admin"

\* the avatar update of a logged-in user who is no admin was refused
C15_Witness ==
    /\ last.op = "update_avatar"
    /\ last.status = 403
    /\ last.tok.token_type = "access"
    /\ users[last.tok.sub].role = "user"
    /\ users[last.tok.sub].avatar = Gravatar(users[last.tok.sub].email)

\* a token made by create_email_token: no token_type claim, no purpose claim
IsEmailToken(tok) ==
    tok.signed /\ tok.token_type = Absent /\ tok.purpose = Absent

\* C16: a signed, unexpired token that was not made as an email-verification
\* token (an access, refresh or password-reset token) is answered 422 by
\* confirmed_email and confirms nobody.
C16_ConfirmationRejectsOtherPurposes ==
    (/\ last.op = "confirmed_email"
     /\ jwt_decode_ok(last.tok, now)
     /\ ~IsEmailToken(last.tok))
    => /\ last.status = 422
       /\ last.detail # "Email has been verified"

\* the token does not decode, or it lacks the pwd_reset purpose marker
NotAResetToken(tok) == ~jwt_decode_ok(tok, now) \/ tok.purpose # "pwd_reset"

\* C17: a token without purpose = pwd_reset, a malformed one and an expired
\* one are answered 422 by reset_password, and no password hash changes.
C17_ResetRequiresPurposeMarker ==
    /\ \A tok \in Presentable, pw \in Passwords, up \in BOOLEAN :
          NotAResetToken(tok)
          => reset_password(tok, pw, up) =
                Out(users, cache,
                    Response(422, "Invalid or expired password reset token"),
                    NoToken)
    /\ (last.op = "reset_password" /\ NotAResetToken(last.tok))
       => last.status = 422

\* an unexpired email-verification token of a registered user was refused
C17_Witness ==
    /\ last.op = "reset_password"
    /\ last.status = 422
    /\ jwt_decode_ok(last.tok, now)
    /\ IsEmailToken(last.tok)
    /\ get_user_by_email(users, last.tok.sub).id # 0

\* tokens sent to refresh: what a client holds, a string that is no token,
\* and a refresh token of this second for each username, with a row or not
RefreshProbes == Presentable \cup {create_refresh_token(n, now) : n \in Usernames}

\* why a refresh may fail
Malformed(tok) == ~tok.signed
Expired(tok) == tok.signed /\ tok.exp < now
WrongType(tok) == tok.token_type # "refresh"
NoSubject(tok) == get_user_by_username(users, tok.sub).id = 0
NotStored(tok) == get_user_by_username(users, tok.sub).refresh_token # tok

RefreshRefused == Response(401, "Invalid or expired refresh token")

\* C18: a malformed token, an expired one, one of another type, one that is
\* not the stored refresh_token and one whose subject has no user all get
\* the same 401 response from refresh, and nothing else does.
C18_RefreshFailuresAlike ==
    /\ \A tok \in RefreshProbes :
          LET out == new_token(tok) IN
          /\ (Malformed(tok) \/ Expired(tok) \/ WrongType(tok)
                \/ NoSubject(tok) \/ NotStored(tok))
             => out = Out(users, cache, RefreshRefused, NoToken)
          /\ out.resp.status # 200 => out.resp = RefreshRefused
    /\ (last.op = "refresh" /\ last.status # 200)
       => last = Last("refresh", last.tok, "none", RefreshRefused)

\* an expired refresh token was refused while a well-formed, unexpired
\* refresh token for a username without a row would be refused too
C18_Witness ==
    /\ last.op = "refresh"
    /\ last.status = 401
    /\ last.tok.token_type = "refresh"
    /\ Expired(last.tok)
    /\ ~NotStored(last.tok)
    /\ \E tok \in RefreshProbes :
          ~Malformed(tok) /\ ~Expired(tok) /\ ~WrongType(tok) /\ NoSubject(tok)

\* C19: every cache entry has at most CACHE_TTL seconds left: it was
\* written with the configured time to live, and at the end of that time a
\* read misses, whether or not the entry was ever deleted.
C19_CacheEntriesExpire ==
    \A n \in Usernames :
        cache[n] # NoEntry
        => /\ now < cache[n].exp
           /\ cache[n].exp <= now + CACHE_TTL
           /\ get_user_cache(cache, n, cache[n].exp) = NoSnapshot

\* the entry of a login is gone once the time to live has passed, for a
\* user whose entry no request deletes
C19_Witness ==
    /\ ticks > 0
    /\ users["bob"].email = "b@x"
    /\ users["bob"].refresh_token # NoToken
    /\ now >= users["bob"].refresh_token.iat + CACHE_TTL
    /\ cache["bob"] = NoEntry

\* C20: no cache entry carries the password hash, and neither does the
\* user in the response of a registration or of any other request.
C20_HashStaysInStore ==
    /\ \A n \in Usernames :
          {"hashed_password", "password"} \cap DOMAIN cache[n].val = {}
    /\ {"hashed_password", "password"} \cap DOMAIN last.identity = {}
    /\ \A body \in RegisterInputs :
          {"hashed_password", "password"}
              \cap DOMAIN register_user(body).resp.identity = {}

\* a registration was answered while the cache holds the entry of a user
\* with a password
C20_Witness ==
    /\ last.op = "register"
    /\ last.status = 201
    /\ last.identity.username = "bob"
    /\ cache["alice"] # NoEntry
    /\ users["alice"].hashed_password = get_password_hash("pw1")

\* C21: a password reset request is answered alike for a registered and an
\* unregistered address, changes neither the users table nor the cache, and
\* hands a reset mail to the background tasks exactly when the address is
\* registered.
C21_ResetRequestTellsNothing ==
    /\ \A e \in Emails :
          LET out == request_password_reset(e) IN
          /\ out.resp = Response(200,
                 "If an account with that email exists, check your inbox")
          /\ out.users = users
          /\ out.cache = cache
          /\ (out.mail # NoToken) <=> (get_user_by_email(users, e).id # 0)
          /\ out.mail # NoToken =>
                out.mail = create_password_reset_token(e, now)
    /\ last.op = "request_password_reset" =>
          /\ last.status = 200
          /\ last.detail = "If an account with that email exists, check your inbox"
          /\ last.access_token = NoToken
          /\ last.identity = NoIdentity

\* a reset request was answered while one of the two addresses is registered
\* and gets a mail, and the other is not and gets none
C21_Witness ==
    /\ last.op = "request_password_reset"
    /\ get_user_by_email(users, "a@x").id # 0
    /\ request_password_reset("a@x").mail # NoToken
    /\ get_user_by_email(users, "zed@x").id = 0
    /\ request_password_reset("zed@x").mail = NoToken

\* C25: a refresh, accepted or refused, leaves the users table and the cache
\* as they were and sends no mail.
C25_RefreshWritesNothing ==
    \A tok \in RefreshProbes :
        LET out == new_token(tok) IN
        /\ out.users = users
        /\ out.cache = cache
        /\ out.mail = NoToken

\* a refresh has been accepted for a user who has no cache entry, and the
\* entry is still missing
C25_Witness ==
    /\ last.op = "refresh"
    /\ last.status = 200
    /\ last.tok.sub \in Usernames
    /\ cache[last.tok.sub] = NoEntry
    /\ users[last.tok.sub].refresh_token = last.tok

\* C26: resolving the session of a request changes neither the users table
\* nor the cache, so a miss served from the users table leaves the entry
\* missing; a cache entry appears or changes only in a login, an email
\* confirmation or an avatar update.
C26_ResolverNeverWrites ==
    [][ /\ (last'.op = "resolve" /\ last' # last)
           => (users' = users /\ cache' = cache)
        /\ \A n \in Usernames :
              (cache'[n] # NoEntry /\ cache'[n] # cache[n])
              => /\ last' # last
                 /\ last'.op \in {"login", "confirmed_email", "update_avatar"}
      ]_vars

\* a session was resolved from the users table and the user's cache entry
\* is still missing
C26_Witness ==
    /\ last.op = "resolve"
    /\ last.fault = "none"
    /\ last.status = 200
    /\ last.identity = Identity(users[last.tok.sub])
    /\ cache[last.tok.sub] = NoEntry

C28_ResetDropsCacheEntry ==
    /\ \A token \in Presentable \cup FreshResetTokens, pw \in Passwords :
          LET out == reset_password(token, pw, TRUE)
              user == get_user_by_email(users, token.sub) IN
          out.resp.status = 200 =>
              (user.id # 0 /\ out.cache[user.username] = NoEntry)
    /\ (last.op = "reset_password" /\ last.fault = "none" /\ last.status = 200) =>
          LET user == get_user_by_email(users, last.tok.sub) IN
          /\ cache[user.username] = NoEntry
          /\ get_current_user(create_access_token(user.username, now), TRUE).identity
                = Identity(user)

\* a password reset has succeeded for a user whose login wrote a cache entry
\* less than the time to live ago
C28_Witness ==
    /\ last.op = "reset_password"
    /\ last.fault = "none"
    /\ last.status = 200
    /\ LET user == get_user_by_email(users, last.tok.sub) IN
       /\ user.refresh_token # NoToken
       /\ now < user.refresh_token.iat + CACHE_TTL
       /\ cache[user.username] = NoEntry

\* the ids of the registered users, and the rows that are not a user's own
UserIds == {users[n].id : n \in Usernames} \ {0}
NotOwnedBy(rows, user_id) == {r \in rows : r.user_id # user_id}

\* C22: every contacts operation is scoped to the requesting user: a read, a
\* list and the upcoming birthdays return the user's own rows only, and an
\* update or a delete aimed at another user's row returns nothing and leaves
\* the table as it was; no operation changes a row of another user.
C22_ContactsScopedToOwner ==
    /\ \A user_id \in UserIds, contact_id \in ContactIds :
          LET got == get_contact_by_id(contacts.rows, contact_id, user_id)
              removed == remove_contact(contacts, contact_id, user_id)
              foreign == \E r \in contacts.rows :
                             r.id = contact_id /\ r.user_id # user_id
          IN
          /\ got # NoContact => got.user_id = user_id
          /\ foreign => (got = NoContact /\ removed = ContactsOut(contacts, 200, "", {}))
          /\ NotOwnedBy(removed.contacts.rows, user_id)
                = NotOwnedBy(contacts.rows, user_id)
          /\ \A body \in ContactBodies :
                LET updated == update_contact(contacts, contact_id, body, user_id)
                    created == create_contact(contacts, body, user_id) IN
                /\ foreign => updated = ContactsOut(contacts, 200, "", {})
                /\ NotOwnedBy(updated.contacts.rows, user_id)
                      = NotOwnedBy(contacts.rows, user_id)
                /\ NotOwnedBy(created.contacts.rows, user_id)
                      = NotOwnedBy(contacts.rows, user_id)
                /\ \A r \in created.items : r.user_id = user_id
    /\ \A user_id \in UserIds :
          /\ \A name \in NameFilters :
                NotOwnedBy(get_contacts(contacts.rows, user_id, name), user_id) = {}
          /\ \A days \in DaysWindows, today \in Todays :
                NotOwnedBy(get_upcoming_birthdays(contacts, user_id, days, today).items,
                           user_id) = {}
    /\ NotOwnedBy(reply.items, reply.user_id) = {}

\* a user asked to delete the contact of another user, got nothing, and the
\* contact is still there
C22_Witness ==
    /\ reply.op = "delete_contact"
    /\ reply.status = 200
    /\ reply.user_id # 0
    /\ reply.items = {}
    /\ \E r \in contacts.rows :
          /\ r.id = reply.contact_id
          /\ r.user_id # reply.user_id
          /\ r.user_id \in UserIds

\* the next date on or after today that has the month and the day of birth
NextOccurrence(birth, today) ==
    LET years == {y \in today.y .. today.y + 8 :
                     /\ ValidDate(y, birth.m, birth.d)
                     /\ toordinal(Date(y, birth.m, birth.d)) >= toordinal(today)}
        year == CHOOSE y \in years : \A z \in years : y <= z
    IN Date(year, birth.m, birth.d)

\* C23: the upcoming birthdays of a user are exactly the user's contacts with
\* a birth date whose next occurrence is 0 to days days after today, the
\* occurrence in the next year included when this year's has passed.
C23_UpcomingBirthdaysExact ==
    (reply.op = "get_upcoming_birthdays" /\ reply.user_id # 0) =>
        /\ reply.status = 200
        /\ reply.items =
              {r \in contacts.rows :
                  /\ r.user_id = reply.user_id
                  /\ r.birth_date # NoDate
                  /\ LET delta == toordinal(NextOccurrence(r.birth_date, reply.today))
                                      - toordinal(reply.today) IN
                     0 <= delta /\ delta <= reply.days}

\* C24: the cache never holds the snapshot of a login whose refresh token has
\* not been persisted: not while the login is under way, and not after its
\* commit has failed.
C24_PersistedBeforeCached ==
    \A p \in Procs :
        LET w == procs[p] IN
        (/\ w.op = "login"
         /\ w.refresh_token # NoToken
         /\ w.seq = 0
         /\ cache[w.user.username].val.refresh_token = w.refresh_token)
        => users[w.user.username].refresh_token = w.refresh_token

\* two workers have each answered a login of the same user with 200, and
\* the commit of p came after the commit of q
CommittedLast(p, q) ==
    /\ p # q
    /\ procs[p].pc = "done" /\ procs[p].op = "login" /\ procs[p].resp.status = 200
    /\ procs[q].pc = "done" /\ procs[q].op = "login" /\ procs[q].resp.status = 200
    /\ procs[p].user.username = procs[q].user.username
    /\ procs[p].seq > procs[q].seq

C30_RaceLoserGets409 ==
    /\ \A n, m \in Usernames :
          (users[n].id # 0 /\ users[m].id # 0 /\ n # m) =>
              /\ users[n].username # users[m].username
              /\ users[n].email # users[m].email
    /\ \A p, q \in Procs :
          (/\ p # q
           /\ procs[p].pc = "done" /\ procs[p].op = "register"
           /\ procs[q].pc = "done" /\ procs[q].op = "register"
           /\ procs[p].resp.status = 201 /\ procs[q].resp.status = 201)
          => /\ procs[p].body.username # procs[q].body.username
             /\ procs[p].body.email # procs[q].body.email
    /\ \A p \in Procs :
          (procs[p].pc = "done" /\ procs[p].op = "register")
              => procs[p].resp.status \in {201, 409}

C33_ConfirmationIdempotent ==
    [][ /\ \A token \in Presentable :
              LET user == get_user_by_email(users, token.sub)
                  out == confirmed_email(token, TRUE) IN
              (jwt_decode_ok(token, now) /\ user.id # 0) =>
                  IF user.confirmed
                  THEN out = Out(users, cache,
                                 Response(200, "Your email is already verified"),
                                 NoToken)
                  ELSE /\ out.resp = Response(200, "Email has been verified")
                       /\ out.users[user.username].confirmed
        /\ \A n \in Usernames : users[n].confirmed => users'[n].confirmed
      ]_vars

\* a verification token was redeemed a second time, for a user who has
\* logged in since the first time
C33_Witness ==
    /\ last.op = "confirmed_email"
    /\ last.status = 200
    /\ last.detail = "Your email is already verified"
    /\ LET user == get_user_by_email(users, last.tok.sub) IN
       /\ user.confirmed
       /\ user.refresh_token # NoToken
       /\ cache[user.username].val.refresh_token = user.refresh_token

\* C34: redeeming a valid verification token whose address belongs to no
\* user is answered 400 'Verification error' and changes neither the users
\* table nor the cache.
C34_UnknownEmailRefused ==
    /\ \A email \in Emails :
          get_user_by_email(users, email).id = 0 =>
              confirmed_email(create_email_token(email, now), TRUE)
                  = Out(users, cache, Response(400, "Verification error"), NoToken)
    /\ (/\ last.op = "confirmed_email"
        /\ IsEmailToken(last.tok)
        /\ jwt_decode_ok(last.tok, now)
        /\ get_user_by_email(users, last.tok.sub).id = 0)
       => (last.status = 400 /\ last.detail = "Verification error")

\* a verification token for an address nobody has registered was redeemed
\* while another user is registered, confirmed and cached
C34_Witness ==
    /\ last.op = "confirmed_email"
    /\ IsEmailToken(last.tok)
    /\ last.tok.sub = "zed@x"
    /\ last.status = 400
    /\ users["alice"].confirmed
    /\ cache["alice"] # NoEntry

\* C35: request_email answers 'Your email is already verified' and mails
\* nothing for a confirmed user; for an unconfirmed user it mails one
\* verification token and answers 'Please check your email to confirm'; for
\* an unknown address it gives that same answer and mails nothing; it never
\* changes the users table or the cache.
C35_RequestEmailBranches ==
    /\ \A email \in Emails :
          LET user == get_user_by_email(users, email)
              out == request_email(email) IN
          /\ out.users = users
          /\ out.cache = cache
          /\ IF user.id # 0 /\ user.confirmed
             THEN /\ out.resp = Response(200, "Your email is already verified")
                  /\ out.mail = NoToken
             ELSE /\ out.resp = Response(200, "Please check your email to confirm")
                  /\ out.mail = IF user.id # 0
                                THEN create_email_token(email, now) ELSE NoToken
    /\ last.op = "request_email" =>
          /\ last.status = 200
          /\ last.detail \in {"Your email is already verified",
                              "Please check your email to confirm"}

\* a confirmed user asked for the verification mail again and was told the
\* email is verified, while the other address of the model is unknown
C35_Witness ==
    /\ last.op = "request_email"
    /\ last.detail = "Your email is already verified"
    /\ get_user_by_email(users, "a@x").confirmed
    /\ request_email("a@x").mail = NoToken
    /\ get_user_by_email(users, "zed@x").id = 0
    /\ request_email("zed@x").resp.detail = "Please check your email to confirm"

\* a contact of the user other than the one with this id has the email and
\* the phone of the body
Duplicates(body, user_id, contact_id) ==
    \E r \in contacts.rows :
        /\ r.id # contact_id
        /\ r.email = body.email /\ r.phone = body.phone /\ r.user_id = user_id

\* C36: creating a contact, or updating one of the user's contacts, so that
\* it has the (email, phone, user_id) of another contact is answered 409 and
\* leaves the table as it was; a commit refused for another constraint (the
\* foreign key of user_id) is answered 400.
C36_DuplicateContactConflicts ==
    /\ \A user_id \in UserIds, body \in ContactBodies :
          /\ Duplicates(body, user_id, 0) =>
                create_contact(contacts, body, user_id) = Conflict(contacts)
          /\ \A contact_id \in ContactIds :
                (/\ get_contact_by_id(contacts.rows, contact_id, user_id) # NoContact
                 /\ Duplicates(body, user_id, contact_id))
                => update_contact(contacts, contact_id, body, user_id)
                       = Conflict(contacts)
    /\ \A body \in ContactBodies :
          create_contact(contacts, body, NextId(users))
              = ContactsOut(contacts, 400, "Data integrity error.", {})
    /\ reply.status = 409 =>
          /\ reply.op \in {"create_contact", "update_contact"}
          /\ reply.items = {}
    /\ reply.status # 400

\* a user with two contacts tried to give one the email and phone of the
\* other and was answered 409; both rows are as they were
C36_Witness ==
    /\ reply.op = "update_contact"
    /\ reply.status = 409
    /\ \E r, q \in contacts.rows :
          /\ r.id = reply.contact_id
          /\ r.user_id = reply.user_id
          /\ q.user_id = reply.user_id
          /\ q.id # r.id
          /\ <<q.email, q.phone>> # <<r.email, r.phone>>

\* no request is being handled and no response is on its way
Quiescent == last = NoLast /\ \A p \in Procs : procs[p].pc = "idle"

\* the cache entry of the username, if there is one, has the email, the
\* confirmed flag, the role and the avatar of the row
Coherent(n) ==
    cache[n] # NoEntry
    => /\ cache[n].val.email = users[n].email
       /\ cache[n].val.confirmed = users[n].confirmed
       /\ cache[n].val.role = users[n].role
       /\ cache[n].val.avatar = users[n].avatar

\* C31: when no request is in flight and every cache write has succeeded,
\* each cache entry agrees with the users table on the email, the confirmed
\* flag, the role and the avatar of its username.
C31_CacheCoherentAtQuiescence == Quiescent => \A n \in Usernames : Coherent(n)

====
